---- MODULE Spec2Model ----
(***************************************************************************)
(* A model of safeinterp (src/safeinterp/core.py): the preprocessing of    *)
(* the samples, the CurveInterpolator instance with its segment caches,    *)
(* the piecewise evaluator, the extrapolation engine, and the two entry    *)
(* points interp_curve and batch_interp_curve.                             *)
(*                                                                         *)
(* Numbers.  Samples are integers and queries are rationals <<n, d>>.     *)
(* Every value the code computes from them is modelled exactly, as a real: *)
(*   <<"num", n, d>>   the rational n/d in lowest terms, d > 0             *)
(*   <<"irr", term>>   an irrational real, named by the expression that    *)
(*                     produces it (two equal terms are equal reals)       *)
(*   <<"inf">>, <<"nan">>   the IEEE results of x/0 and of 0*inf           *)
(* Floating-point rounding is not modelled.                                *)
(* A raised exception is the value <<"raise", type, message>>.             *)
(***************************************************************************)
EXTENDS Integers, Sequences, FiniteSets, TLC

VARIABLES
    x,           \* CurveInterpolator.x  : the Sample Set's x (sequence of integers)
    y,           \* CurveInterpolator.y  : the Sample Set's y
    heap,        \* the list objects alive in the interpreter, by identity (id)
    autoRef,     \* CurveInterpolator._auto_segments_cache : 0 (None) or the id of its list
    segCacheId,  \* CurveInterpolator._seg_cache_id : 0 (None) or an id
    segCached,   \* CurveInterpolator._seg_modes_cached / _seg_ks_cached
    call,        \* the arguments of the latest call
    out,         \* the outcome of the latest call
    mark,        \* one earlier evaluation of this instance, kept for comparison
    pre          \* the raw arrays handed to the constructor

vars == <<x, y, heap, autoRef, segCacheId, segCached, call, out, mark, pre>>

----------------------------------------------------------------------------
(* Bounds of the model.                                                    *)

MaxN == 3          \* a raw array holds at most MaxN numbers
MaxQ == 2          \* a query array holds at most MaxQ numbers
MaxNum == 3        \* the shorthand form asks for at most MaxNum points
MaxCat == 2        \* a batch of several categories holds at most MaxCat of them
MaxFine == 2       \* a raw x is an integer plus 0..MaxFine multiples of 1e-12
RootBound == 3     \* rational exponents a/b are searched with |a|, b <= RootBound

----------------------------------------------------------------------------
(* Exact rational arithmetic: <<n, d>> with d > 0 and gcd(n, d) = 1.       *)

Abs(a) == IF a < 0 THEN -a ELSE a

Sgn(a) == IF a < 0 THEN -1 ELSE IF a > 0 THEN 1 ELSE 0

Min2(a, b) == IF a < b THEN a ELSE b

Max2(a, b) == IF a < b THEN b ELSE a

RECURSIVE Gcd(_, _)
Gcd(a, b) == IF b = 0 THEN a ELSE Gcd(b, a % b)

Rat(n, d) ==
    LET g == Gcd(Abs(n), Abs(d))
        s == IF d < 0 THEN -1 ELSE 1
    IN  <<(s * n) \div g, (s * d) \div g>>

RInt(i) == <<i, 1>>

RAdd(a, b) == Rat(a[1] * b[2] + b[1] * a[2], a[2] * b[2])

RSub(a, b) == Rat(a[1] * b[2] - b[1] * a[2], a[2] * b[2])

RMul(a, b) == Rat(a[1] * b[1], a[2] * b[2])

RDiv(a, b) == Rat(a[1] * b[2], a[2] * b[1])

RLt(a, b) == a[1] * b[2] < b[1] * a[2]

RLe(a, b) == a[1] * b[2] <= b[1] * a[2]

RECURSIVE IPow(_, _)
IPow(b, e) == IF e = 0 THEN 1 ELSE b * IPow(b, e - 1)

\* r^e for an integer e and a rational r # 0
RPowInt(r, e) ==
    IF e >= 0 THEN Rat(IPow(r[1], e), IPow(r[2], e))
    ELSE Rat(IPow(r[2], -e), IPow(r[1], -e))

\* the integer b-th root of m >= 0 when m is a perfect b-th power, else -1
IRoot(m, b) ==
    LET S == {r \in 0..m : IPow(r, b) = m}
    IN  IF S = {} THEN -1 ELSE CHOOSE r \in S : TRUE

\* whether the positive rational r has a rational b-th root
HasRoot(r, b) == IRoot(r[1], b) >= 0 /\ IRoot(r[2], b) >= 0

RRoot(r, b) == Rat(IRoot(r[1], b), IRoot(r[2], b))

----------------------------------------------------------------------------
(* Values.                                                                 *)

Num(r) == <<"num", r[1], r[2]>>

NumI(i) == <<"num", i, 1>>

Irr(term) == <<"irr", term>>

Inf == <<"inf">>

NaN == <<"nan">>

Raise(type, msg) == <<"raise", type, msg>>

IsNum(v) == v[1] = "num"

IsRaise(v) == v[1] = "raise"

RatOf(v) == <<v[2], v[3]>>

\* a + b * ratio, for rationals a, b and a value ratio
Affine(a, b, ratio) ==
    CASE ratio[1] = "num" -> Num(RAdd(a, RMul(b, RatOf(ratio))))
      [] ratio[1] = "irr" -> IF b[1] = 0 THEN Num(a) ELSE Irr(<<"aff", a, b, ratio[2]>>)
      [] ratio[1] = "inf" -> IF b[1] = 0 THEN NaN ELSE Inf
      [] OTHER -> NaN

\* c * r^e for rationals c, r > 0 and a rational exponent e: rational exactly
\* when r has a rational root of the order of e's denominator
ScaledPow(c, r, e) ==
    IF HasRoot(r, e[2])
    THEN Num(RMul(c, RPowInt(RRoot(r, e[2]), e[1])))
    ELSE IF c[1] = 0 THEN NumI(0) ELSE Irr(<<"pow", c, r, e>>)

\* the rational e with b = r^e, for positive rationals r # 1 and b, as a set
\* (empty when there is none within RootBound)
LogRatio(b, r) ==
    {e \in {Rat(n, d) : n \in (-RootBound)..RootBound, d \in 1..RootBound} :
        RPowInt(r, e[1]) = RPowInt(b, e[2])}

----------------------------------------------------------------------------
(* Raw numbers, as the caller hands them to the constructor:               *)
(*   <<"fin", w, f>>  the finite number w + f * 1e-12 (w, f integers)      *)
(*   <<"nan">>, <<"inf">>  the non-finite numbers                          *)

Eps == 1           \* 1e-12, in multiples of 1e-12

Fin(w) == <<"fin", w, 0>>

IsFinite(a) == a[1] = "fin"

\* a < b, for finite raw numbers (|f| * 1e-12 is far below 1)
RawLess(a, b) == a[2] < b[2] \/ (a[2] = b[2] /\ a[3] < b[3])

\* b - a > 1e-12
DiffAboveEps(a, b) == IF b[2] # a[2] THEN b[2] > a[2] ELSE b[3] - a[3] > Eps

Bijections(n) == {p \in [1..n -> 1..n] : \A i, j \in 1..n : p[i] = p[j] => i = j}

\* np.argsort(x): an index array that sorts x; the order of equal x is the
\* sorting algorithm's choice
ArgSorts(rx) ==
    {p \in Bijections(Len(rx)) :
        \A i, j \in 1..Len(rx) : i < j => ~RawLess(rx[p[j]], rx[p[i]])}

Take(s, p) == [i \in 1..Len(s) |-> s[p[i]]]

\* valid_mask with the comparison against 1e-12 turned into "not equal"
ValidIdxDistinct(xs) == {i \in 1..Len(xs) : i = 1 \/ xs[i - 1] # xs[i]}

\* the positions valid_mask keeps: the first, and each whose x exceeds the
\* x before it by more than 1e-12
ValidIdx(xs) == {i \in 1..Len(xs) : i = 1 \/ DiffAboveEps(xs[i - 1], xs[i])}

RECURSIVE Keep(_, _, _)
Keep(s, I, i) ==
    IF i > Len(s) THEN <<>>
    ELSE (IF i \in I THEN <<s[i]>> ELSE <<>>) \o Keep(s, I, i + 1)

\* _ensure_sorted_xy(x, y), with p the index array argsort returns when it is called
EnsureSortedXY(rx, ry, p) ==
    IF Len(rx) # Len(ry) THEN Raise("ValueError", "shape")
    ELSE IF \E i \in 1..Len(rx) : ~IsFinite(rx[i]) \/ ~IsFinite(ry[i])
    THEN Raise("ValueError", "nonfinite")
    ELSE LET unsorted == \E i \in 1..(Len(rx) - 1) : RawLess(rx[i + 1], rx[i])
             sx == IF unsorted THEN Take(rx, p) ELSE rx
             sy == IF unsorted THEN Take(ry, p) ELSE ry
             I  == ValidIdx(sx)
         IN  <<"ok", Keep(sx, I, 1), Keep(sy, I, 1)>>

\* CurveInterpolator.__init__: the Sample Set, or the error raised
NewInterpolator(rx, ry, p) ==
    LET r == EnsureSortedXY(rx, ry, p)
    IN  IF IsRaise(r) THEN r
        ELSE IF Len(r[2]) < 2 THEN Raise("ValueError", "points")
        ELSE r

----------------------------------------------------------------------------
(* Shape Function Library.                                                 *)

Kinds == {"linear", "power", "exp", "logistic", "cos", "sin", "poly2", "poly3"}

\* |k| < 1e-9 (exp) and |v1 - v0| < 1e-12 (logistic): on the model's
\* parameters, which are 0 or at least 1/RootBound in magnitude, k = 0
Tiny(k) == k[1] = 0

\* _curve_ratio(t, mode, k) for one t in [0, 1]
CurveRatio(t, mode, k) ==
    CASE mode = "linear" -> Num(t)
      [] mode = "power" ->
            IF t[1] = 0
            THEN (IF k[1] > 0 THEN NumI(0) ELSE IF k[1] = 0 THEN NumI(1) ELSE Inf)
            ELSE ScaledPow(RInt(1), t, k)
      [] mode = "exp" ->
            IF Tiny(k) \/ t[1] = 0 \/ t = RInt(1) THEN Num(t)
            ELSE Irr(<<"exp", k, t>>)
      [] mode = "logistic" ->
            IF Tiny(k) \/ t[1] = 0 \/ t = RInt(1) \/ t = <<1, 2>> THEN Num(t)
            ELSE Irr(<<"logistic", k, t>>)
      [] mode = "cos" ->
            CASE t[1] = 0 \/ t = RInt(1) \/ t = <<1, 2>> -> Num(t)
              [] t = <<1, 3>> -> Num(<<1, 4>>)
              [] t = <<2, 3>> -> Num(<<3, 4>>)
              [] OTHER -> Irr(<<"cos", t>>)
      [] mode = "sin" ->
            CASE t[1] = 0 \/ t = RInt(1) -> Num(t)
              [] t = <<1, 3>> -> Num(<<1, 2>>)
              [] OTHER -> Irr(<<"sin", t>>)
      [] mode = "poly2" -> Num(RMul(t, RSub(RInt(2), t)))
      [] mode = "poly3" -> Num(RMul(RMul(t, t), RSub(RInt(3), RMul(RInt(2), t))))
      [] OTHER -> Raise("ValueError", "mode")

----------------------------------------------------------------------------
(* Piecewise Evaluator.                                                    *)

\* np.clip(v, 0, 1)
Clip01(v) == IF v[1] < 0 THEN RInt(0) ELSE IF RLt(RInt(1), v) THEN RInt(1) ELSE v

\* an array of values: <<"ok", vs>>
Ok(vs) == <<"ok", vs>>

\* the first raised exception of a sequence of values, or the array of them
FirstRaise(vs) ==
    IF \E i \in 1..Len(vs) : IsRaise(vs[i])
    THEN vs[CHOOSE i \in 1..Len(vs) : IsRaise(vs[i]) /\ \A j \in 1..(i - 1) : ~IsRaise(vs[j])]
    ELSE Ok(vs)

\* _single_segment(new_x, mode, k) for one query: the first and the last sample only
SingleSegment1(xs, ys, q, mode, k) ==
    LET n == Len(xs)
        t == Clip01(RDiv(RSub(q, RInt(xs[1])), RInt(xs[n] - xs[1])))
    IN  LET ratio == CurveRatio(t, mode, k)
        IN  IF IsRaise(ratio) THEN ratio
            ELSE Affine(RInt(ys[1]), RInt(ys[n] - ys[1]), ratio)

SingleSegment(xs, ys, qs, mode, k) ==
    FirstRaise([i \in 1..Len(qs) |-> SingleSegment1(xs, ys, qs[i], mode, k)])

\* the index with searchsorted's side="left": the samples strictly below q
SegIndexLeft(xs, q) ==
    LET c == Cardinality({i \in 1..Len(xs) : RLt(RInt(xs[i]), q)})
    IN  Max2(1, Min2(c, Len(xs) - 1))

\* np.clip(np.searchsorted(x, q, side="right") - 1, 0, nseg - 1), counted from 1
SegIndex(xs, q) ==
    LET c == Cardinality({i \in 1..Len(xs) : RLe(RInt(xs[i]), q)})
    IN  Max2(1, Min2(c, Len(xs) - 1))

DescMode(d) == d[1]

\* s.get("k", 1.0)
DescK(d) == IF Len(d) >= 2 THEN d[2] ELSE RInt(1)

\* the arrays _multi_segment caches from a segment list
CacheOf(segs) == [i \in 1..Len(segs) |-> <<DescMode(segs[i]), DescK(segs[i])>>]

\* _multi_segment's value for one query, from the cached descriptors
MultiSegment1(xs, ys, q, cached) ==
    LET i == SegIndex(xs, q)
        t == Clip01(RDiv(RSub(q, RInt(xs[i])), RInt(xs[i + 1] - xs[i])))
    IN  LET ratio == CurveRatio(t, cached[i][1], cached[i][2])
        IN  IF IsRaise(ratio) THEN ratio
            ELSE Affine(RInt(ys[i]), RInt(ys[i + 1] - ys[i]), ratio)

\* _multi_segment(new_x, segments) once the cache holds `cached`: indexing the
\* cached arrays comes first and fails as a whole, then the shapes are applied
MultiSegment(xs, ys, qs, cached) ==
    IF \E i \in 1..Len(qs) : SegIndex(xs, qs[i]) > Len(cached)
    THEN Raise("IndexError", "segments")
    ELSE FirstRaise([i \in 1..Len(qs) |-> MultiSegment1(xs, ys, qs[i], cached)])

----------------------------------------------------------------------------
(* Extrapolation Engine.                                                   *)

\* y_ref * (q / x_ref)^p with p = log(ry) / log(rx), for rx > 1
PowerLaw(yref, base, ry, rx) ==
    LET P == LogRatio(ry, rx)
    IN  IF ry = RInt(1) THEN Num(yref)
        ELSE IF base[1] = 0 THEN (IF RLt(RInt(1), ry) THEN NumI(0) ELSE Inf)
        ELSE IF base[1] < 0
        THEN (IF P # {} /\ (CHOOSE e \in P : TRUE)[2] = 1
              THEN Num(RMul(yref, RPowInt(base, (CHOOSE e \in P : TRUE)[1])))
              ELSE NaN)
        ELSE IF P # {} THEN ScaledPow(yref, base, CHOOSE e \in P : TRUE)
        ELSE LET S == LogRatio(base, rx)
             IN  IF S # {} THEN ScaledPow(yref, ry, CHOOSE e \in S : TRUE)
                 ELSE Irr(<<"plaw", yref, base, ry, rx>>)

\* the exp law with its positivity check weakened from `or` to `and`: a
\* single non-positive y reaches np.log and comes back as nan
ExpLawWeakCheck(x0, x1, y0, y1, q, side) ==
    IF y0 <= 0 /\ y1 <= 0 THEN Raise("ValueError", "exp")
    ELSE IF y0 <= 0 \/ y1 <= 0 THEN NaN
    ELSE IF side = "left"
    THEN ScaledPow(RInt(y0), Rat(y1, y0), RDiv(RSub(q, RInt(x0)), RInt(x1 - x0)))
    ELSE ScaledPow(RInt(y1), Rat(y1, y0), RDiv(RSub(q, RInt(x1)), RInt(x1 - x0)))

\* the exp law of _manual_extrap: y_ref * exp(log(y1 / y0) / (x1 - x0) * (q - x_ref))
ExpLaw(x0, x1, y0, y1, q, side) ==
    IF y0 <= 0 \/ y1 <= 0 THEN Raise("ValueError", "exp")
    ELSE IF side = "left"
    THEN ScaledPow(RInt(y0), Rat(y1, y0), RDiv(RSub(q, RInt(x0)), RInt(x1 - x0)))
    ELSE ScaledPow(RInt(y1), Rat(y1, y0), RDiv(RSub(q, RInt(x1)), RInt(x1 - x0)))

\* _manual_extrap(new_x, side, method) for one query
ManualExtrap1(xs, ys, q, side, method) ==
    LET n  == Len(xs)
        i0 == IF side = "left" THEN 1 ELSE n - 1
        x0 == xs[i0]
        x1 == xs[i0 + 1]
        y0 == ys[i0]
        y1 == ys[i0 + 1]
        slope == Rat(y1 - y0, x1 - x0)
    IN  CASE method = "edge" -> NumI(IF side = "left" THEN y0 ELSE y1)
          [] method = "mirror" ->
                IF side = "left"
                THEN Num(RAdd(RInt(y0), RMul(slope, RSub(RInt(x0), q))))
                ELSE Num(RSub(RInt(y1), RMul(slope, RSub(q, RInt(x1)))))
          [] method = "linear" ->
                IF side = "left"
                THEN Num(RAdd(RInt(y0), RMul(slope, RSub(q, RInt(x0)))))
                ELSE Num(RAdd(RInt(y1), RMul(slope, RSub(q, RInt(x1)))))
          [] method = "exp" -> ExpLaw(x0, x1, y0, y1, q, side)
          [] method = "power" ->
                IF x0 <= 0 \/ x1 <= 0 \/ y0 <= 0 \/ y1 <= 0 THEN Raise("ValueError", "power")
                ELSE IF side = "left"
                THEN PowerLaw(RInt(y0), RDiv(q, RInt(x0)), Rat(y1, y0), Rat(x1, x0))
                ELSE PowerLaw(RInt(y1), RDiv(q, RInt(x1)), Rat(y1, y0), Rat(x1, x0))
          [] OTHER -> Raise("ValueError", "extrapolate")

ManualExtrap(xs, ys, qs, side, method) ==
    FirstRaise([i \in 1..Len(qs) |-> ManualExtrap1(xs, ys, qs[i], side, method)])

\* the cascade without its first law
AutoOrderNoLinear == <<"power", "exp", "mirror">>

\* the laws _auto_extrap tries in turn before the edge law
AutoOrder == <<"linear", "power", "exp", "mirror">>

\* the loop of _auto_extrap over the laws not yet tried; `tried` lists the
\* laws attempted so far
RECURSIVE AutoCascade(_, _, _, _, _, _)
AutoCascade(xs, ys, qs, side, todo, tried) ==
    IF todo = <<>>
    THEN [tried |-> Append(tried, "edge"), val |-> ManualExtrap(xs, ys, qs, side, "edge")]
    ELSE LET r == ManualExtrap(xs, ys, qs, side, Head(todo))
         IN  IF IsRaise(r)
             THEN AutoCascade(xs, ys, qs, side, Tail(todo), Append(tried, Head(todo)))
             ELSE [tried |-> Append(tried, Head(todo)), val |-> r]

\* _auto_extrap with the power law ahead of the linear law in the cascade
AutoExtrapPowerFirst(xs, ys, qs, side, method) ==
    IF method # "auto"
    THEN LET r == ManualExtrap(xs, ys, qs, side, method)
         IN  IF IsRaise(r)
             THEN [tried |-> <<method, "linear">>,
                   val |-> ManualExtrap(xs, ys, qs, side, "linear")]
             ELSE [tried |-> <<method>>, val |-> r]
    ELSE AutoCascade(xs, ys, qs, side, <<"power", "linear", "exp", "mirror">>, <<>>)

\* _auto_extrap replacing a failed explicit law by the edge law
AutoExtrapEdgeFallback(xs, ys, qs, side, method) ==
    IF method # "auto"
    THEN LET r == ManualExtrap(xs, ys, qs, side, method)
         IN  IF IsRaise(r)
             THEN [tried |-> <<method, "edge">>,
                   val |-> ManualExtrap(xs, ys, qs, side, "edge")]
             ELSE [tried |-> <<method>>, val |-> r]
    ELSE AutoCascade(xs, ys, qs, side, AutoOrder, <<>>)

\* _auto_extrap(new_x, side, method): the values, and the laws it attempted
AutoExtrap(xs, ys, qs, side, method) ==
    IF method # "auto"
    THEN LET r == ManualExtrap(xs, ys, qs, side, method)
         IN  IF IsRaise(r)
             THEN [tried |-> <<method, "linear">>,
                   val |-> ManualExtrap(xs, ys, qs, side, "linear")]
             ELSE [tried |-> <<method>>, val |-> r]
    ELSE AutoCascade(xs, ys, qs, side, AutoOrder, <<>>)

----------------------------------------------------------------------------
(* Slope Estimator, Monotonicity Flag, Segment Cost Evaluator and Segment  *)
(* Selector.                                                               *)

\* _estimate_slopes(x, y): one rational slope per sample
EstimateSlopes(xs, ys) ==
    LET n == Len(xs)
    IN  [i \in 1..n |->
            IF n = 2 THEN Rat(ys[2] - ys[1], xs[2] - xs[1])
            ELSE IF i = 1 THEN Rat(ys[2] - ys[1], xs[2] - xs[1])
            ELSE IF i = n THEN Rat(ys[n] - ys[n - 1], xs[n] - xs[n - 1])
            ELSE Rat(ys[i + 1] - ys[i - 1], xs[i + 1] - xs[i - 1])]

\* _monotonic_dir
MonotonicDir(ys) ==
    IF \A i \in 1..(Len(ys) - 1) : ys[i + 1] - ys[i] >= 0 THEN 1
    ELSE IF \A i \in 1..(Len(ys) - 1) : ys[i + 1] - ys[i] <= 0 THEN -1
    ELSE 0

\* the candidate table of _choose_best_segment, in its iteration order
Candidates ==
    << <<"linear", <<1, 1>>>>,
       <<"power", <<1, 2>>>>, <<"power", <<4, 5>>>>, <<"power", <<1, 1>>>>,
       <<"power", <<6, 5>>>>, <<"power", <<3, 2>>>>, <<"power", <<2, 1>>>>,
       <<"exp", <<1, 2>>>>, <<"exp", <<1, 1>>>>, <<"exp", <<3, 2>>>>, <<"exp", <<2, 1>>>>,
       <<"logistic", <<2, 1>>>>, <<"logistic", <<4, 1>>>>, <<"logistic", <<6, 1>>>>,
       <<"poly3", <<1, 1>>>> >>

\* dy_dx_at's dr_dt for candidate c (its place in Candidates), in thousandths:
\* (r(0.001) - r(0)) / (0.001 + 1e-12) at the start of the segment and
\* (r(1) - r(0.999)) / (0.001 + 1e-12) at its end, rounded to three decimals
ProbeStart(c) ==
    <<1000, 31623, 3981, 1000, 251, 32, 1, 771, 582, 431, 313, 851, 552, 300, 3>>[c]

ProbeEnd(c) ==
    <<1000, 500, 800, 1000, 1200, 1500, 1999, 1270, 1581, 1929, 2311, 851, 552, 300, 3>>[c]

Lcm(a, b) == (a * b) \div Gcd(a, b)

\* e * e as <<hi, lo>>, meaning hi * 10^6 + lo with 0 <= lo < 10^6
Square(e) ==
    LET a == Abs(e) \div 1000
        b == Abs(e) % 1000
        m == 2 * a * b
        l == (m % 1000) * 1000 + b * b
    IN  <<a * a + (m \div 1000) + (l \div 1000000), l % 1000000>>

\* _segment_cost(mode, k, y0, y1, span, s_left, s_right) for candidate c, as
\* <<penalty, hi, lo>>: penalty counts the 1e6 of the monotonicity
\* constraint (the rest of the cost stays far below 1e6), and hi, lo are the
\* rest of the cost on the scale 20 * (1000 * L)^2, the same for every
\* candidate of the segment
SegmentCost(c, y0, y1, span, sLeft, sRight, dir) ==
    LET dy  == y1 - y0
        g   == Rat(dy, span)
        L   == Lcm(g[2], Lcm(sLeft[2], sRight[2]))
        dy0 == g[1] * (L \div g[2]) * ProbeStart(c)
        dy1 == g[1] * (L \div g[2]) * ProbeEnd(c)
        e0  == dy0 - sLeft[1] * (L \div sLeft[2]) * 1000
        e1  == dy1 - sRight[1] * (L \div sRight[2]) * 1000
        q0  == Square(e0)
        q1  == Square(e1)
        q2  == Square(dy1 - dy0)
        dramatic == Candidates[c][1] \in {"exp", "logistic"} /\ 5 * Abs(dy) <= Abs(y0)
        w   == IF dramatic THEN 30 ELSE 20
        v   == IF dramatic THEN 3 ELSE 2
        lo  == w * q0[2] + w * q1[2] + v * q2[2]
        hi  == w * q0[1] + w * q1[1] + v * q2[1] + (lo \div 1000000)
        pen == IF dir > 0 /\ (dy0 < 0 \/ dy1 < 0) THEN 1
               ELSE IF dir < 0 /\ (dy0 > 0 \/ dy1 > 0) THEN 1
               ELSE 0
    IN  <<pen, hi, lo % 1000000>>

\* c < best_cost
CostLess(a, b) ==
    \/ a[1] < b[1]
    \/ a[1] = b[1] /\ a[2] < b[2]
    \/ a[1] = b[1] /\ a[2] = b[2] /\ a[3] < b[3]

\* the loop taking a candidate that costs no more than the best so far, so
\* that the last of several cheapest candidates wins
RECURSIVE BestFromLast(_, _, _, _, _, _, _, _)
BestFromLast(c, best, y0, y1, span, sLeft, sRight, dir) ==
    IF c > Len(Candidates) THEN best
    ELSE IF ~CostLess(SegmentCost(best, y0, y1, span, sLeft, sRight, dir),
                      SegmentCost(c, y0, y1, span, sLeft, sRight, dir))
         THEN BestFromLast(c + 1, c, y0, y1, span, sLeft, sRight, dir)
         ELSE BestFromLast(c + 1, best, y0, y1, span, sLeft, sRight, dir)

\* the loop of _choose_best_segment from candidate c on, `best` being the
\* place of the best candidate so far
RECURSIVE BestFrom(_, _, _, _, _, _, _, _)
BestFrom(c, best, y0, y1, span, sLeft, sRight, dir) ==
    IF c > Len(Candidates) THEN best
    ELSE IF CostLess(SegmentCost(c, y0, y1, span, sLeft, sRight, dir),
                     SegmentCost(best, y0, y1, span, sLeft, sRight, dir))
         THEN BestFrom(c + 1, c, y0, y1, span, sLeft, sRight, dir)
         ELSE BestFrom(c + 1, best, y0, y1, span, sLeft, sRight, dir)

\* _choose_best_segment(i, y0, y1, span): the (mode, k) chosen for segment i
ChooseBestSegment(xs, ys, i) ==
    LET s  == EstimateSlopes(xs, ys)
        y0 == ys[i]
        y1 == ys[i + 1]
    IN  IF 20 * Abs(y1 - y0) <= Abs(y0) THEN <<"linear", <<1, 1>>>>
        ELSE Candidates[BestFrom(2, 1, y0, y1, xs[i + 1] - xs[i], s[i], s[i + 1],
                                 MonotonicDir(ys))]

\* the list _auto_segments builds: one descriptor per segment
AutoSegments(xs, ys) == [i \in 1..(Len(xs) - 1) |-> ChooseBestSegment(xs, ys, i)]

----------------------------------------------------------------------------
(* CurveInterpolator.__call__.                                             *)

\* a query that is nan, which np.asarray(new_x, float) lets through; every
\* other query is a rational, with a positive denominator
QNaN == <<0, 0>>

IsQNaN(q) == q[2] = 0

\* the three masks; every comparison with nan is False
Inside(xs, qs) ==
    {i \in 1..Len(qs) :
        ~IsQNaN(qs[i]) /\ RLe(RInt(xs[1]), qs[i]) /\ RLe(qs[i], RInt(xs[Len(xs)]))}

LeftOf(xs, qs) == {i \in 1..Len(qs) : ~IsQNaN(qs[i]) /\ RLt(qs[i], RInt(xs[1]))}

RightOf(xs, qs) == {i \in 1..Len(qs) : ~IsQNaN(qs[i]) /\ RLt(RInt(xs[Len(xs)]), qs[i])}

\* an element of np.empty_like(flat) that no mask has assigned
Unset == <<"unset">>

\* what such an element can hold: whatever the allocated memory held
Stale == {NumI(0), NumI(7), NaN}

\* the places of an array that were never assigned
Gaps(v) == IF IsRaise(v) THEN {} ELSE {i \in 1..Len(v[2]) : v[2][i] = Unset}

\* the contents the memory can have at those places
Stales(v) == [Gaps(v) -> Stale]

\* the array as returned, its unassigned places holding e
Settle(v, e) ==
    IF IsRaise(v) THEN v
    ELSE Ok([i \in 1..Len(v[2]) |-> IF i \in DOMAIN e THEN e[i] ELSE v[2][i]])

\* idx of _multi_segment for the in-range queries qin, counted from 1
SegIndices(xs, qin) == [i \in 1..Len(qin) |-> SegIndex(xs, qin[i])]

\* the place of i among the members of I, counted from 1
Rank(I, i) == Cardinality({j \in I : j <= i})

\* whether __call__ reaches _multi_segment
UsesMulti(xs, qs, mode, hasSegs) ==
    Inside(xs, qs) # {} /\ (hasSegs \/ (mode = "auto" /\ Len(xs) > 2))

\* the interpolation part of __call__ on the in-range queries qin; `cached`
\* is what the descriptor cache holds once _multi_segment has looked at it
InterpPart(xs, ys, qin, mode, k, hasSegs, cached) ==
    IF hasSegs THEN MultiSegment(xs, ys, qin, cached)
    ELSE IF mode # "auto" THEN SingleSegment(xs, ys, qin, mode, k)
    ELSE IF Len(xs) = 2
    THEN LET d == ChooseBestSegment(xs, ys, 1)
         IN  SingleSegment(xs, ys, qin, d[1], d[2])
    ELSE MultiSegment(xs, ys, qin, cached)

\* __call__(new_x, mode, k, segments, extrapolate): the result array or the
\* exception raised, the laws the extrapolation of each side attempted, and
\* the interval indices _multi_segment computed when it ran.  An element of
\* the result that none of the three masks covers is left Unset.
CallCore(xs, ys, qs, mode, k, hasSegs, cached, extrap) ==
    LET In == Inside(xs, qs)
        Lf == LeftOf(xs, qs)
        Rt == RightOf(xs, qs)
        vin == IF In = {} THEN Ok(<<>>)
               ELSE InterpPart(xs, ys, Keep(qs, In, 1), mode, k, hasSegs, cached)
        idx == IF UsesMulti(xs, qs, mode, hasSegs) THEN SegIndices(xs, Keep(qs, In, 1))
               ELSE <<>>
    IN  IF IsRaise(vin) THEN [res |-> vin, tried |-> <<<<>>, <<>>>>, idx |-> idx]
        ELSE LET el == IF Lf = {} THEN [tried |-> <<>>, val |-> Ok(<<>>)]
                       ELSE AutoExtrap(xs, ys, Keep(qs, Lf, 1), "left", extrap)
                 er == IF Rt = {} THEN [tried |-> <<>>, val |-> Ok(<<>>)]
                       ELSE AutoExtrap(xs, ys, Keep(qs, Rt, 1), "right", extrap)
             IN  IF IsRaise(el.val)
                 THEN [res |-> el.val, tried |-> <<el.tried, <<>>>>, idx |-> idx]
                 ELSE IF IsRaise(er.val)
                 THEN [res |-> er.val, tried |-> <<el.tried, er.tried>>, idx |-> idx]
                 ELSE [res |-> Ok([i \in 1..Len(qs) |->
                                  IF i \in In THEN vin[2][Rank(In, i)]
                                  ELSE IF i \in Lf THEN el.val[2][Rank(Lf, i)]
                                  ELSE IF i \in Rt THEN er.val[2][Rank(Rt, i)]
                                  ELSE Unset]),
                       tried |-> <<el.tried, er.tried>>, idx |-> idx]

----------------------------------------------------------------------------
(* The interpolator instance and the list objects of its caller.           *)

NumIds == 2        \* identities (addresses) a list object can have

Ids == 1..NumIds

Free == <<>>       \* no object lives at this identity

FreeIds == {i \in Ids : heap[i] = Free}

NoCall == [op |-> "none"]

Identity(n) == [i \in 1..n |-> i]

Wholes(rs) == [i \in 1..Len(rs) |-> rs[i][2]]

Fins(ws) == [i \in 1..Len(ws) |-> Fin(ws[i])]

SeqsOver(S, lo, hi) == UNION {[1..n -> S] : n \in lo..hi}

\* the index arrays argsort can return for rx when _ensure_sorted_xy sorts,
\* and the identity when it does not
SortChoices(rx, ry) ==
    IF Len(rx) = Len(ry)
       /\ (\A i \in 1..Len(rx) : IsFinite(rx[i]) /\ IsFinite(ry[i]))
       /\ (\E i \in 1..(Len(rx) - 1) : RawLess(rx[i + 1], rx[i]))
    THEN ArgSorts(rx)
    ELSE {Identity(Len(rx))}

\* the instance CurveInterpolator(rx, ry) of integer arrays, just constructed
Constructed(XS, YS) ==
    \E rx \in SeqsOver(XS, 2, MaxN), ry \in SeqsOver(YS, 2, MaxN) :
      \E p \in SortChoices(Fins(rx), Fins(ry)) :
        LET r == NewInterpolator(Fins(rx), Fins(ry), p)
        IN  /\ ~IsRaise(r)
            /\ x = Wholes(r[2])
            /\ y = Wholes(r[3])
            /\ heap = [i \in Ids |-> Free]
            /\ autoRef = 0
            /\ segCacheId = 0
            /\ segCached = <<>>
            /\ call = NoCall
            /\ out = NoCall
            /\ mark = NoCall
            /\ pre = <<>>

\* the caller builds a list of segment descriptors; it may land on any free
\* identity, one that an earlier list had included
NewList(id, segs) ==
    /\ heap[id] = Free
    /\ autoRef # 0 \/ Cardinality(FreeIds) >= 2
    /\ heap' = [heap EXCEPT ![id] = segs]
    /\ UNCHANGED <<x, y, autoRef, segCacheId, segCached, call, out, mark, pre>>

\* the caller's last reference to a list goes away; a list the caller has
\* remembered an evaluation with stays referenced
DropList(id) ==
    /\ heap[id] # Free
    /\ id # autoRef
    /\ mark # NoCall => mark.call.seg # id
    /\ heap' = [heap EXCEPT ![id] = Free]
    /\ UNCHANGED <<x, y, autoRef, segCacheId, segCached, call, out, mark, pre>>

\* the caller assigns segments[i] = d
SetEntry(id, i, d) ==
    /\ heap[id] # Free
    /\ id # autoRef
    /\ i \in 1..Len(heap[id])
    /\ heap[id][i] # d
    /\ heap' = [heap EXCEPT ![id][i] = d]
    /\ UNCHANGED <<x, y, autoRef, segCacheId, segCached, call, out, mark, pre>>

\* interp(new_x, mode, k, segments, extrapolate) on the instance; seg is the
\* identity of the list passed as segments, 0 for None.  _auto_segments
\* builds its list, on a free identity, the first time it runs, and
\* _multi_segment reloads the descriptor cache when the identity of the list
\* it is given differs from the cached one
Call(qs, mode, k, seg, extrap) ==
    /\ seg # 0 => (heap[seg] # Free /\ seg # autoRef)
    /\ LET multi == UsesMulti(x, qs, mode, seg # 0)
           build == multi /\ seg = 0 /\ autoRef = 0
       IN  \E a \in (IF build THEN FreeIds ELSE {0}),
              made \in {IF build THEN AutoSegments(x, y) ELSE <<>>} :
             LET heap1 == IF build THEN [heap EXCEPT ![a] = made] ELSE heap
                 auto1 == IF build THEN a ELSE autoRef
                 id    == IF seg # 0 THEN seg ELSE auto1
                 cached1 == IF multi /\ segCacheId # id THEN CacheOf(heap1[id]) ELSE segCached
             IN  /\ heap' = heap1
                 /\ autoRef' = auto1
                 /\ segCacheId' = IF multi THEN id ELSE segCacheId
                 /\ segCached' = cached1
                 /\ call' = [op |-> "call", qs |-> qs, mode |-> mode, k |-> k, seg |-> seg,
                             segs |-> IF seg # 0 THEN heap[seg] ELSE <<>>, extrap |-> extrap]
                 /\ \E r \in {CallCore(x, y, qs, mode, k, seg # 0, cached1, extrap)} :
                      \E e \in Stales(r.res) : out' = [r EXCEPT !.res = Settle(@, e)]
    /\ UNCHANGED <<x, y, mark, pre>>

\* the caller keeps the latest evaluation and its result
Remember ==
    /\ call # NoCall
    /\ mark = NoCall
    /\ mark' = [op |-> "mark", call |-> call, out |-> out]
    /\ UNCHANGED <<x, y, heap, autoRef, segCacheId, segCached, call, out, pre>>

----------------------------------------------------------------------------
(* The extrapolation engine, on the first evaluation of an instance.       *)

ValX == {0, 1, 2, 3}

ValY == {-1, 0, 1, 2}

\* queries: two left of every sample, one among them, one right of them
ValQ == {RInt(q) : q \in {-2, -1, 1, 4}}

Laws == {"edge", "linear", "exp", "power", "mirror", "auto", "cubic"}

InitExtrap == Constructed(ValX, ValY)

NextExtrap ==
    /\ call = NoCall
    /\ \E qs \in SeqsOver(ValQ, 1, MaxQ), m \in Laws : Call(qs, "linear", RInt(1), 0, m)

SpecExtrap == InitExtrap /\ [][NextExtrap]_vars

\* the two boundary-adjacent samples of a side, as <<x0, x1, y0, y1>>
BoundaryPair(side) ==
    LET i == IF side = "left" THEN 1 ELSE Len(x) - 1
    IN  <<x[i], x[i + 1], y[i], y[i + 1]>>

\* whether a law fails on a side: the positivity preconditions of exp and
\* power, and a law that does not exist
LawFails(law, side) ==
    LET b == BoundaryPair(side)
    IN  \/ law = "exp" /\ (b[3] <= 0 \/ b[4] <= 0)
        \/ law = "power" /\ (b[1] <= 0 \/ b[2] <= 0 \/ b[3] <= 0 \/ b[4] <= 0)
        \/ law \notin {"edge", "linear", "exp", "power", "mirror"}

SideNo(side) == IF side = "left" THEN 1 ELSE 2

\* the queries of the latest call that lie on a side, in order
SideQueries(side) ==
    Keep(call.qs, IF side = "left" THEN LeftOf(x, call.qs) ELSE RightOf(x, call.qs), 1)

\* the values the latest call returned for the queries on a side, in order
SideValues(side) ==
    Keep(out.res[2], IF side = "left" THEN LeftOf(x, call.qs) ELSE RightOf(x, call.qs), 1)

\* the values of a law for the queries on a side
LawValues(law, side) ==
    [i \in 1..Len(SideQueries(side)) |-> ManualExtrap1(x, y, SideQueries(side)[i], side, law)]

CascadeOrder == <<"linear", "power", "exp", "mirror", "edge">>

\* C2: with extrapolate="auto", on each side the laws are attempted in the
\* order linear, power, exp, mirror, every law attempted before the last one
\* fails, the last one attempted does not fail and gives the values returned,
\* edge is attempted only after the four others, and the call does not raise.
C2_AutoCascade ==
    (call.op = "call" /\ call.extrap = "auto") =>
        /\ ~IsRaise(out.res)
        /\ \A side \in {"left", "right"} :
             LET tr == out.tried[SideNo(side)]
             IN  IF SideQueries(side) = <<>> THEN tr = <<>>
                 ELSE /\ Len(tr) \in 1..5
                      /\ \A i \in 1..Len(tr) : tr[i] = CascadeOrder[i]
                      /\ \A i \in 1..(Len(tr) - 1) : LawFails(tr[i], side)
                      /\ ~LawFails(tr[Len(tr)], side)
                      /\ SideValues(side) = LawValues(tr[Len(tr)], side)

\* an auto request on a side where the power law would have succeeded too,
\* with other values than the linear law
C2_Witness ==
    /\ call.op = "call" /\ call.extrap = "auto"
    /\ \E side \in {"left", "right"} :
         /\ SideQueries(side) # <<>>
         /\ ~LawFails("power", side)
         /\ out.tried[SideNo(side)] = <<"linear">>
         /\ LawValues("power", side) # SideValues(side)

\* C3: an explicit law (not auto) that fails on a side is replaced by the
\* linear law, whose values are returned, and the call does not raise; a law
\* that does not fail returns its own values.
C3_ExplicitDowngrade ==
    (call.op = "call" /\ call.extrap # "auto") =>
        /\ ~IsRaise(out.res)
        /\ \A side \in {"left", "right"} :
             SideValues(side) =
                IF LawFails(call.extrap, side) THEN LawValues("linear", side)
                ELSE LawValues(call.extrap, side)

\* a failed explicit law, whose linear replacement differs from the edge law
C3_Witness ==
    /\ call.op = "call" /\ call.extrap \in {"exp", "power"}
    /\ \E side \in {"left", "right"} :
         /\ SideQueries(side) # <<>>
         /\ LawFails(call.extrap, side)
         /\ SideValues(side) = LawValues("linear", side)
         /\ SideValues(side) # LawValues("edge", side)

\* C4 as stated: exp on a Sample Set with a non-positive y anywhere returns
\* the linear law's values on both sides.
C4_Original ==
    (call.op = "call" /\ call.extrap = "exp" /\ \E i \in 1..Len(y) : y[i] <= 0) =>
        /\ ~IsRaise(out.res)
        /\ \A side \in {"left", "right"} : SideValues(side) = LawValues("linear", side)

\* C4 amended: exp returns the linear law's values on a side whose two
\* boundary-adjacent samples include a non-positive y, and does not raise; on
\* a side whose two boundary-adjacent y are positive it returns the
\* exponential through them, y_ref * (y1 / y0)^((q - x_ref) / (x1 - x0)),
\* wherever else a non-positive y lies.
C4_ExpDowngrade ==
    (call.op = "call" /\ call.extrap = "exp") =>
        /\ ~IsRaise(out.res)
        /\ \A side \in {"left", "right"} :
             LET b == BoundaryPair(side)
                 ref == IF side = "left" THEN 1 ELSE 2
             IN  IF b[3] <= 0 \/ b[4] <= 0
                 THEN SideValues(side) = LawValues("linear", side)
                 ELSE SideValues(side) =
                        [i \in 1..Len(SideQueries(side)) |->
                            ScaledPow(RInt(b[ref + 2]), Rat(b[4], b[3]),
                                      RDiv(RSub(SideQueries(side)[i], RInt(b[ref])),
                                           RInt(b[2] - b[1])))]

\* exp on a side whose boundary pair is positive while another sample is not:
\* the exponential is returned, and it is not the linear law's values
C4_Witness ==
    /\ call.op = "call" /\ call.extrap = "exp"
    /\ \E i \in 1..Len(y) : y[i] <= 0
    /\ \E side \in {"left", "right"} :
         /\ SideQueries(side) # <<>>
         /\ ~LawFails("exp", side)
         /\ SideValues(side) # LawValues("linear", side)

\* C15: with extrapolate="auto" the call does not raise and, on each side
\* that has queries, the linear law is the only law attempted and every value
\* returned for that side is the linear law's value, y_ref + slope * (q -
\* x_ref) with the slope of the two boundary-adjacent samples; power, exp,
\* mirror and edge are never attempted.
C15_AutoIsLinear ==
    (call.op = "call" /\ call.extrap = "auto") =>
        /\ ~IsRaise(out.res)
        /\ \A side \in {"left", "right"} :
             LET b  == BoundaryPair(side)
                 qq == SideQueries(side)
                 xr == IF side = "left" THEN b[1] ELSE b[2]
                 yr == IF side = "left" THEN b[3] ELSE b[4]
             IN  /\ b[2] - b[1] > 0
                 /\ out.tried[SideNo(side)] = IF qq = <<>> THEN <<>> ELSE <<"linear">>
                 /\ SideValues(side) =
                        [i \in 1..Len(qq) |->
                            Num(RAdd(RInt(yr), RMul(Rat(b[4] - b[3], b[2] - b[1]),
                                                    RSub(qq[i], RInt(xr)))))]

\* an auto request with queries on both sides of a Sample Set on which the
\* power, exp and mirror laws all succeed, and the values returned on the
\* left are those of none of the other four laws
C15_Witness ==
    /\ call.op = "call" /\ call.extrap = "auto"
    /\ SideQueries("left") # <<>> /\ SideQueries("right") # <<>>
    /\ ~LawFails("power", "left") /\ ~LawFails("exp", "left")
    /\ \A law \in {"power", "exp", "mirror", "edge"} :
         LawValues(law, "left") # SideValues("left")

----------------------------------------------------------------------------
(* Construction from raw arrays.  In this specification the caller's       *)
(* arrays are in `pre`, and x and y hold raw numbers.                      *)

RawX == {<<"fin", w, f>> : w \in {0, 1}, f \in 0..MaxFine} \cup {NaN}

RawY == {Fin(0), Fin(1), Inf}

InitPre ==
    /\ pre \in [rx : SeqsOver(RawX, 0, MaxN), ry : SeqsOver(RawY, 0, MaxN)]
    /\ x = <<>>
    /\ y = <<>>
    /\ heap = [i \in Ids |-> Free]
    /\ autoRef = 0
    /\ segCacheId = 0
    /\ segCached = <<>>
    /\ call = NoCall
    /\ out = NoCall
    /\ mark = NoCall

\* CurveInterpolator(pre.rx, pre.ry)
New ==
    /\ out = NoCall
    /\ \E p \in SortChoices(pre.rx, pre.ry) :
         LET r == NewInterpolator(pre.rx, pre.ry, p)
         IN  /\ out' = [op |-> "new", res |-> r]
             /\ x' = IF IsRaise(r) THEN x ELSE r[2]
             /\ y' = IF IsRaise(r) THEN y ELSE r[3]
    /\ UNCHANGED <<heap, autoRef, segCacheId, segCached, call, mark, pre>>

SpecPre == InitPre /\ [][New]_vars

\* C8: construction from arrays of different lengths or with a non-finite
\* value fails with an input error; from equal-length finite arrays it fails
\* with an input error exactly when no two x that are neighbours in sorted
\* order differ by more than 1e-12 (fewer than two samples remain), and
\* otherwise yields at least two samples, with x strictly increasing, each x
\* more than 1e-12 above the one before, and each (x, y) a pair of the input.
C8_Preprocessing ==
    (out # NoCall /\ out.op = "new") =>
        LET rx == pre.rx
            ry == pre.ry
            n  == Len(rx)
            gap(a, b) == IF b[2] # a[2] THEN b[2] - a[2] ELSE b[3] - a[3]
            far(a, b) == b[2] > a[2] \/ (b[2] = a[2] /\ b[3] - a[3] > 1)
            between(a, c, b) == gap(a, c) > 0 /\ gap(c, b) > 0
        IN  IF n # Len(ry) \/ (\E i \in 1..n : rx[i][1] # "fin")
               \/ (\E i \in 1..Len(ry) : ry[i][1] # "fin")
            THEN out.res[1] = "raise" /\ out.res[2] = "ValueError"
            ELSE IF ~\E i, j \in 1..n :
                       far(rx[i], rx[j]) /\ ~\E m \in 1..n : between(rx[i], rx[m], rx[j])
            THEN out.res[1] = "raise" /\ out.res[2] = "ValueError"
            ELSE /\ out.res[1] = "ok"
                 /\ x = out.res[2] /\ y = out.res[3]
                 /\ Len(x) >= 2 /\ Len(y) = Len(x)
                 /\ \A i \in 1..(Len(x) - 1) : far(x[i], x[i + 1])
                 /\ \A i \in 1..Len(x) : \E j \in 1..n : x[i] = rx[j] /\ y[i] = ry[j]

\* a construction that had to sort and that dropped a near-duplicate
C8_Witness ==
    /\ out # NoCall /\ out.op = "new" /\ out.res[1] = "ok"
    /\ Len(x) < Len(pre.rx)
    /\ \E i \in 1..(Len(pre.rx) - 1) : RawLess(pre.rx[i + 1], pre.rx[i])
    /\ \E i, j \in 1..Len(pre.rx) :
         pre.rx[i] # pre.rx[j] /\ pre.rx[i][2] = pre.rx[j][2] /\ pre.ry[i] # pre.ry[j]

----------------------------------------------------------------------------
(* interp_curve.  An optional argument is <<>> for None and <<v>> for v.   *)
(* In this specification the arguments of the call are in `pre`, and x, y  *)
(* are the Sample Set of the instance the call constructs.                 *)

None == <<>>

Some(v) == <<v>>

\* np.linspace(0.0, 1.0, num), for num >= 0
Linspace(num) == [i \in 1..num |-> IF num = 1 THEN RInt(0) ELSE Rat(i - 1, num - 1)]

\* interp_curve accepting the shorthand form only when no raw argument is given
ResolveFormExclusive(a) ==
    IF a.start # None /\ a.end # None /\ a.num # None
       /\ a.x = None /\ a.y = None /\ a.new_x = None
    THEN (IF a.num[1] < 0 THEN Raise("ValueError", "num")
          ELSE <<"ok", <<0, 1>>, <<a.start[1], a.end[1]>>, Linspace(a.num[1])>>)
    ELSE IF a.x = None \/ a.y = None \/ a.new_x = None
            \/ (a.start # None /\ a.end # None /\ a.num # None)
    THEN Raise("ValueError", "missing")
    ELSE <<"ok", a.x[1], a.y[1], a.new_x[1]>>

\* the head of interp_curve: the shorthand form, when complete, replaces x,
\* y and new_x; then all three must be there
ResolveForm(a) ==
    IF a.start # None /\ a.end # None /\ a.num # None
    THEN (IF a.num[1] < 0 THEN Raise("ValueError", "num")
          ELSE <<"ok", <<0, 1>>, <<a.start[1], a.end[1]>>, Linspace(a.num[1])>>)
    ELSE IF a.x = None \/ a.y = None \/ a.new_x = None
    THEN Raise("ValueError", "missing")
    ELSE <<"ok", a.x[1], a.y[1], a.new_x[1]>>

\* the index arrays argsort can return inside the call
CallSorts(a) ==
    LET f == ResolveForm(a)
    IN  IF IsRaise(f) THEN {<<>>} ELSE SortChoices(Fins(f[2]), Fins(f[3]))

\* the instance interp_curve constructs, or the error raised before or by
\* its construction
CallInstance(a, p) ==
    LET f == ResolveForm(a)
    IN  IF IsRaise(f) THEN f ELSE NewInterpolator(Fins(f[2]), Fins(f[3]), p)

\* interp_curve(**a): the result array or the exception raised, an element
\* that __call__ never assigned being Unset
InterpCurve(a, p) ==
    LET f == ResolveForm(a)
        inst == CallInstance(a, p)
    IN  IF IsRaise(inst) THEN inst
        ELSE CallCore(Wholes(inst[2]), Wholes(inst[3]), f[4], a.mode, a.k,
                      a.segments # None,
                      IF a.segments # None THEN CacheOf(a.segments[1]) ELSE <<>>,
                      a.extrapolate).res

\* calls that vary which arguments of the two forms are there
FormArgs ==
    [x : {None, Some(<<0, 2>>)},
     y : {None, Some(<<1, 3>>), Some(<<1>>)},
     new_x : {None, Some(<<RInt(1)>>), Some(<<>>)},
     start : {None, Some(0), Some(2)},
     end : {None, Some(1), Some(2)},
     num : {None} \cup {Some(n) : n \in (-1)..MaxNum},
     mode : {"linear", "poly2", "auto"},
     k : {RInt(1)},
     segments : {None},
     extrapolate : {"edge"}]

ShapeX == {<<0, 2>>, <<0, 1, 2>>}

ShapeY == {0, 1, 3}

ShapeQ == {RInt(q) : q \in {-1, 0, 1, 2}}

ShapeDescs == {<<"linear">>, <<"poly2">>, <<"power", RInt(0)>>, <<"cubic">>}

\* calls in the raw form that vary the shape options
ShapeArgs ==
    {a \in [x : {Some(s) : s \in ShapeX},
            y : {Some(s) : s \in SeqsOver(ShapeY, 2, 3)},
            new_x : {Some(s) : s \in SeqsOver(ShapeQ, 1, MaxQ)},
            start : {None}, end : {None}, num : {None},
            mode : Kinds \cup {"auto", "cubic"},
            k : {RInt(-1), RInt(0), <<1, 2>>, RInt(1), RInt(2)},
            segments : {None} \cup {Some(s) : s \in SeqsOver(ShapeDescs, 1, 2)},
            extrapolate : {"edge"}] :
        /\ Len(a.x[1]) = Len(a.y[1])
        /\ a.segments # None => (a.mode \in {"linear", "cubic"} /\ a.k = RInt(1))}

InitSingle ==
    /\ pre \in FormArgs \cup ShapeArgs
    /\ x = <<>>
    /\ y = <<>>
    /\ heap = [i \in Ids |-> Free]
    /\ autoRef = 0
    /\ segCacheId = 0
    /\ segCached = <<>>
    /\ call = NoCall
    /\ out = NoCall
    /\ mark = NoCall

\* interp_curve(**pre)
InterpCurveCall ==
    /\ out = NoCall
    /\ \E p \in CallSorts(pre) :
         LET inst == CallInstance(pre, p)
         IN  /\ \E w \in {InterpCurve(pre, p)} : \E e \in Stales(w) :
                    out' = [op |-> "single", res |-> Settle(w, e)]
             /\ x' = IF IsRaise(inst) THEN x ELSE Wholes(inst[2])
             /\ y' = IF IsRaise(inst) THEN y ELSE Wholes(inst[3])
    /\ UNCHANGED <<heap, autoRef, segCacheId, segCached, call, mark, pre>>

SpecSingle == InitSingle /\ [][InterpCurveCall]_vars

Shorthand == pre.start # None /\ pre.end # None /\ pre.num # None

RawForm == pre.x # None /\ pre.y # None /\ pre.new_x # None

\* C5 as stated: a call that does not fail was given exactly one of the two
\* forms, and a call given both fails with an input error.
C5_Original ==
    (out # NoCall /\ out.op = "single") =>
        /\ ~IsRaise(out.res) => (Shorthand /\ ~RawForm) \/ (RawForm /\ ~Shorthand)
        /\ (Shorthand /\ RawForm) => (IsRaise(out.res) /\ out.res[2] = "ValueError")

\* C5 amended: the call fails with the missing-input error exactly when
\* neither form is fully supplied.  When start, end and num are all given
\* the call evaluates the shorthand form and ignores x, y and new_x, given or
\* not, so both forms together do not fail: with mode="linear" and num >= 0
\* the result is the num evenly spaced values from start to end.
C5_InputForms ==
    (out # NoCall /\ out.op = "single") =>
        /\ (out.res = Raise("ValueError", "missing")) <=> (~Shorthand /\ ~RawForm)
        /\ Shorthand =>
             \E p \in CallSorts(pre) :
                out.res = InterpCurve([pre EXCEPT !.x = None, !.y = None, !.new_x = None], p)
        /\ (Shorthand /\ pre.mode = "linear" /\ pre.num[1] >= 0) =>
             LET n == pre.num[1]
                 s == pre.start[1]
                 e == pre.end[1]
             IN  out.res = Ok([i \in 1..n |->
                                 IF n = 1 THEN NumI(s)
                                 ELSE Num(RAdd(RInt(s), Rat((e - s) * (i - 1), n - 1)))])

\* both forms fully supplied: the call returns the shorthand's num values,
\* not what the raw form alone returns
C5_Witness ==
    /\ out # NoCall /\ out.op = "single"
    /\ Shorthand /\ RawForm
    /\ pre.num[1] >= 2
    /\ out.res[1] = "ok" /\ Len(out.res[2]) = pre.num[1]
    /\ \A p \in SortChoices(Fins(pre.x[1]), Fins(pre.y[1])) :
          out.res # InterpCurve([pre EXCEPT !.start = None, !.end = None, !.num = None], p)

\* C6 as stated: a call on a valid Sample Set whose mode (with no segments,
\* which would override it) or one of whose segment entries names an
\* unrecognized shape kind fails with an input error, whatever the queries.
C6_Original ==
    (/\ out # NoCall /\ out.op = "single"
     /\ ~IsRaise(ResolveForm(pre)) /\ x # <<>>
     /\ \/ pre.segments = None /\ pre.mode \notin Kinds \cup {"auto"}
        \/ /\ pre.segments # None
           /\ \E i \in 1..Len(pre.segments[1]) : pre.segments[1][i][1] \notin Kinds)
    => (IsRaise(out.res) /\ out.res[2] = "ValueError")

\* C1 as stated: a call that returns, returns the first sample's y at the
\* first sample's x and the last sample's y at the last sample's x, and in
\* mode="auto" without segments on more than two samples it returns each
\* sample's y at that sample's x.
C1_Original ==
    (out # NoCall /\ out.op = "single" /\ out.res[1] = "ok" /\ x # <<>>) =>
        LET qs == ResolveForm(pre)[4]
            n  == Len(x)
        IN  \A i \in 1..Len(qs) :
              /\ qs[i] = RInt(x[1]) => out.res[2][i] = NumI(y[1])
              /\ qs[i] = RInt(x[n]) => out.res[2][i] = NumI(y[n])
              /\ (pre.mode = "auto" /\ pre.segments = None /\ n > 2) =>
                    \A j \in 1..n : qs[i] = RInt(x[j]) => out.res[2][i] = NumI(y[j])

----------------------------------------------------------------------------
(* One instance over its lifetime: the caller builds, changes and drops    *)
(* segment lists and evaluates the instance with them.                     *)

LifeX == {0, 2, 4}

LifeY == {0, 2}

LifeDescs == {<<"linear">>, <<"poly2">>}

\* one query in the first interval, between two samples
LifeQ == {<<RInt(1)>>}

Init == Constructed(LifeX, LifeY)

Build == \E id \in Ids, segs \in SeqsOver(LifeDescs, Len(x) - 1, Len(x) - 1) : NewList(id, segs)

Drop == \E id \in Ids : DropList(id)

Assign == \E id \in Ids, i \in 1..(MaxN - 1), d \in LifeDescs : SetEntry(id, i, d)

\* with a segment list the mode is left at its default
Evaluate ==
    \E qs \in LifeQ :
        \/ \E mode \in {"auto", "linear"} : Call(qs, mode, RInt(1), 0, "edge")
        \/ \E seg \in Ids : Call(qs, "auto", RInt(1), seg, "edge")

Next == Build \/ Drop \/ Assign \/ Evaluate \/ Remember

Spec == Init /\ [][Next]_vars

\* C7 as stated: an evaluation made with the query array and the options
\* (mode, k, the segment list and its entries, extrapolate) of a remembered
\* earlier evaluation returns the remembered result.
C7_Original ==
    (/\ mark # NoCall /\ call # NoCall
     /\ call.qs = mark.call.qs
     /\ call.mode = mark.call.mode /\ call.k = mark.call.k
     /\ call.seg = mark.call.seg /\ call.segs = mark.call.segs
     /\ call.extrap = mark.call.extrap)
    => out.res = mark.out.res

\* C12 as stated: an evaluation with a segment list that reaches
\* _multi_segment leaves in the cache the descriptors of the list as it was
\* passed, and returns the values those descriptors give, whatever evaluations,
\* dropped lists or changed entries came before.
C12_Original ==
    (call # NoCall /\ call.seg # 0 /\ Inside(x, call.qs) # {}) =>
        /\ segCached = CacheOf(call.segs)
        /\ out.res = CallCore(x, y, call.qs, call.mode, call.k, TRUE,
                              CacheOf(call.segs), call.extrap).res

----------------------------------------------------------------------------
(* batch_interp_curve.  `pre` holds the arguments: data, a sequence of     *)
(* [name, cfg] in the mapping's order, cfg a record with the keys the      *)
(* category gives, and the batch-level options, None where not given.      *)
(* `out` is the loop: the index of the next category, the results so far   *)
(* and how the call ended; `call` is the latest call of interp_curve.      *)

Running == <<"run">>

\* a ValueError of batch_interp_curve, whose message names the category
BatchRaise(what, cat) == <<"raise", "ValueError", what, cat>>

\* cfg.get(key, dflt), for an optional dflt
Get(cfg, key, dflt) == IF key \in DOMAIN cfg THEN Some(cfg[key]) ELSE dflt

\* cfg.get(key, dflt), for a dflt that is always a value
GetV(cfg, key, dflt) == IF key \in DOMAIN cfg THEN cfg[key] ELSE dflt

\* the category's resolution with the checks for x, y and new_x left to
\* interp_curve
ResolveCategoryUnchecked(b, c) ==
    LET cfg == c.cfg
        startUsed == Get(cfg, "start", b.start)
        endUsed == Get(cfg, "end", b.end)
        numUsed == Get(cfg, "num", b.num)
        opts == [mode |-> GetV(cfg, "mode", b.mode), k |-> GetV(cfg, "k", b.k),
                 segments |-> Get(cfg, "segments", b.segments),
                 extrapolate |-> GetV(cfg, "extrapolate", b.extrapolate)]
    IN  IF startUsed # None /\ endUsed # None /\ numUsed # None
        THEN <<"ok", [x |-> None, y |-> None, new_x |-> None,
                      start |-> startUsed, end |-> endUsed, num |-> numUsed] @@ opts>>
        ELSE <<"ok", [x |-> IF "x" \in DOMAIN cfg THEN Some(cfg.x) ELSE b.common_x,
                      y |-> IF "y" \in DOMAIN cfg THEN Some(cfg.y) ELSE None,
                      new_x |-> IF "new_x" \in DOMAIN cfg THEN Some(cfg.new_x)
                                ELSE b.common_new_x,
                      start |-> None, end |-> None, num |-> None] @@ opts>>

\* one pass of the main loop up to the call of interp_curve: the arguments
\* it passes (None for those it does not pass), or the error it raises
ResolveCategory(b, c) ==
    LET cfg == c.cfg
        startUsed == Get(cfg, "start", b.start)
        endUsed == Get(cfg, "end", b.end)
        numUsed == Get(cfg, "num", b.num)
        opts == [mode |-> GetV(cfg, "mode", b.mode), k |-> GetV(cfg, "k", b.k),
                 segments |-> Get(cfg, "segments", b.segments),
                 extrapolate |-> GetV(cfg, "extrapolate", b.extrapolate)]
        xUsed == IF "x" \in DOMAIN cfg THEN Some(cfg.x) ELSE b.common_x
        newUsed == IF "new_x" \in DOMAIN cfg THEN Some(cfg.new_x) ELSE b.common_new_x
    IN  IF startUsed # None /\ endUsed # None /\ numUsed # None
        THEN <<"ok", [x |-> None, y |-> None, new_x |-> None,
                      start |-> startUsed, end |-> endUsed, num |-> numUsed] @@ opts>>
        ELSE IF xUsed = None THEN BatchRaise("x", c.name)
        ELSE IF "y" \notin DOMAIN cfg THEN BatchRaise("y", c.name)
        ELSE IF Len(xUsed[1]) # Len(cfg.y) THEN BatchRaise("len", c.name)
        ELSE IF newUsed = None THEN BatchRaise("new_x", c.name)
        ELSE <<"ok", [x |-> xUsed, y |-> Some(cfg.y), new_x |-> newUsed,
                      start |-> None, end |-> None, num |-> None] @@ opts>>

CatNames == <<"A", "B", "C", "D">>

NoKeys == [key \in {} |-> None]

\* one category, with any of its keys there or not
RichCfgs ==
    {a @@ b @@ c @@ d @@ e @@ f :
        a \in {NoKeys, [x |-> <<0, 2>>]},
        b \in {NoKeys, [y |-> <<1, 3>>]},
        c \in {NoKeys, [new_x |-> <<RInt(1)>>]},
        d \in {NoKeys, [start |-> 0]},
        e \in {NoKeys, [end |-> 2, num |-> 3]},
        f \in {NoKeys, [mode |-> "poly2"], [k |-> RInt(2)],
               [segments |-> <<<<"poly2">>>>], [extrapolate |-> "linear"]}}

BatchOpts ==
    {[mode |-> "auto", k |-> RInt(1), segments |-> None, extrapolate |-> "edge"],
     [mode |-> "linear", k |-> RInt(1), segments |-> None, extrapolate |-> "edge"],
     [mode |-> "power", k |-> RInt(3), segments |-> None, extrapolate |-> "edge"],
     [mode |-> "auto", k |-> RInt(1), segments |-> Some(<<<<"linear">>>>), extrapolate |-> "edge"],
     [mode |-> "auto", k |-> RInt(1), segments |-> None, extrapolate |-> "mirror"]}

RichBatches ==
    {[data |-> <<[name |-> CatNames[1], cfg |-> cfg]>>] @@ f @@ o :
        cfg \in RichCfgs,
        f \in [common_x : {None, Some(<<0, 4>>)}, common_new_x : {None, Some(<<RInt(2)>>)},
               start : {None, Some(1)}, end : {None, Some(3)}, num : {None, Some(2)}],
        o \in BatchOpts}

\* categories that are complete, incomplete in each way, or faulty otherwise
PlainCfgs ==
    {[x |-> <<0, 2>>, y |-> <<1, 3>>, new_x |-> <<RInt(1)>>],
     [y |-> <<1, 3>>, new_x |-> <<RInt(1)>>],
     [x |-> <<0, 2>>, y |-> <<1, 3>>],
     [x |-> <<0, 2>>, new_x |-> <<RInt(1)>>],
     [y |-> <<1, 3>>],
     [start |-> 0, end |-> 2, num |-> 3],
     [x |-> <<0, 2>>, y |-> <<1>>, new_x |-> <<RInt(1)>>],
     [x |-> <<0, 2>>, y |-> <<1, 3>>, new_x |-> <<RInt(1)>>, segments |-> <<>>]}

PlainBatches ==
    {[data |-> [i \in 1..Len(cfgs) |-> [name |-> CatNames[i], cfg |-> cfgs[i]]],
      start |-> None, end |-> None, num |-> None,
      mode |-> "linear", k |-> RInt(1), segments |-> None, extrapolate |-> "edge"] @@ f :
        cfgs \in SeqsOver(PlainCfgs, 1, MaxCat),
        f \in [common_x : {None, Some(<<0, 4>>)}, common_new_x : {None, Some(<<RInt(2)>>)}]}

\* batch_interp_curve(**pre) on entering its main loop
InitBatch ==
    /\ pre \in RichBatches \cup PlainBatches
    /\ x = <<>>
    /\ y = <<>>
    /\ heap = [i \in Ids |-> Free]
    /\ autoRef = 0
    /\ segCacheId = 0
    /\ segCached = <<>>
    /\ call = NoCall
    /\ out = [op |-> "batch", next |-> 1, results |-> <<>>, res |-> Running]
    /\ mark = NoCall

\* one pass of the main loop: the category's arguments are resolved and
\* interp_curve is called; an error of either ends the batch call
BatchStep ==
    /\ out.res = Running
    /\ out.next <= Len(pre.data)
    /\ LET c == pre.data[out.next]
           r == ResolveCategory(pre, c)
       IN  IF IsRaise(r)
           THEN /\ out' = [out EXCEPT !.res = r]
                /\ UNCHANGED call
           ELSE \E p \in CallSorts(r[2]) : \E w \in {InterpCurve(r[2], p)} :
                \E e \in Stales(w) : \E v \in {Settle(w, e)} :
                  /\ call' = [op |-> "single", cat |-> c.name, args |-> r[2]]
                  /\ out' = IF IsRaise(v) THEN [out EXCEPT !.res = v]
                            ELSE [out EXCEPT !.next = @ + 1,
                                             !.results = Append(@, <<c.name, v>>)]
    /\ UNCHANGED <<x, y, heap, autoRef, segCacheId, segCached, mark, pre>>

\* return results
BatchReturn ==
    /\ out.res = Running
    /\ out.next > Len(pre.data)
    /\ out' = [out EXCEPT !.res = Ok(out.results)]
    /\ UNCHANGED <<x, y, heap, autoRef, segCacheId, segCached, call, mark, pre>>

NextBatch == BatchStep \/ BatchReturn

SpecBatch == InitBatch /\ [][NextBatch]_vars

\* the category the latest call of interp_curve was made for
CalledCfg == (CHOOSE i \in 1..Len(pre.data) : pre.data[i].name = call.cat)

\* C9 as stated, for a category that gives none of start, end and num and
\* for the options x, y, new_x, mode, k, segments and extrapolate: the value
\* passed to interp_curve is the category's value when the category gives
\* one, else the batch-level value, else (x and new_x) the shared series,
\* else the default of interp_curve; no batch-level value displaces a value
\* of the category.
C9_Original ==
    (call # NoCall /\ call.op = "single") =>
        LET cfg == pre.data[CalledCfg].cfg
            a == call.args
        IN  DOMAIN cfg \cap {"start", "end", "num"} = {} =>
              /\ a.x = (IF "x" \in DOMAIN cfg THEN Some(cfg.x) ELSE pre.common_x)
              /\ a.y = (IF "y" \in DOMAIN cfg THEN Some(cfg.y) ELSE None)
              /\ a.new_x = (IF "new_x" \in DOMAIN cfg THEN Some(cfg.new_x)
                            ELSE pre.common_new_x)
              /\ a.mode = (IF "mode" \in DOMAIN cfg THEN cfg.mode ELSE pre.mode)
              /\ a.k = (IF "k" \in DOMAIN cfg THEN cfg.k ELSE pre.k)
              /\ a.segments = (IF "segments" \in DOMAIN cfg THEN Some(cfg.segments)
                               ELSE pre.segments)
              /\ a.extrapolate = (IF "extrapolate" \in DOMAIN cfg THEN cfg.extrapolate
                                  ELSE pre.extrapolate)

\* whether category i, not resolving to the shorthand form, lacks y, or x
\* with no shared x, or new_x with no shared query array
Lacking(i) ==
    LET cfg == pre.data[i].cfg
        has(key, dflt) == key \in DOMAIN cfg \/ dflt # None
    IN  /\ ~(has("start", pre.start) /\ has("end", pre.end) /\ has("num", pre.num))
        /\ \/ "y" \notin DOMAIN cfg
           \/ ~has("x", pre.common_x)
           \/ ~has("new_x", pre.common_new_x)

\* C10 as stated: once the batch call has ended, it has raised an input
\* error that names each category lacking data.
C10_Original ==
    (out.op = "batch" /\ out.res # Running) =>
        \A i \in 1..Len(pre.data) :
            Lacking(i) =>
                /\ out.res[1] = "raise" /\ out.res[2] = "ValueError"
                /\ Len(out.res) = 4 /\ out.res[4] = pre.data[i].name

\* C10 amended: a category lacking data never gets a result and the batch
\* call never returns a mapping; when every category before it has evaluated
\* successfully, the call ends with an input error (for x, y or new_x) that
\* names it.  If an earlier category fails, that failure ends the call.
C10_MissingData ==
    out.op = "batch" =>
        \A i \in 1..Len(pre.data) :
            Lacking(i) =>
                /\ Len(out.results) < i
                /\ out.next <= i
                /\ out.res[1] # "ok"
                /\ (out.res # Running /\ Len(out.results) = i - 1) =>
                      /\ out.res[1] = "raise" /\ out.res[2] = "ValueError"
                      /\ Len(out.res) = 4
                      /\ out.res[3] \in {"x", "y", "new_x"}
                      /\ out.res[4] = pre.data[i].name

\* a second category lacking y after a first one that evaluated: the call
\* has ended with the error naming the second
C10_Witness ==
    /\ out.op = "batch" /\ Len(pre.data) >= 2
    /\ Lacking(2) /\ ~Lacking(1)
    /\ Len(out.results) = 1
    /\ out.res = BatchRaise("y", pre.data[2].name)

----------------------------------------------------------------------------
(* The partition of the query array and the interval index, on the first   *)
(* evaluation of an instance.                                              *)

CallX == {0, 1, 2, 3}

CallY == {0, 1}

\* queries: nan, one left of every sample, the samples' x and a point
\* between two of them, one right of every sample
CallQ == {QNaN, RInt(-1), RInt(0), RInt(1), <<3, 2>>, RInt(2), RInt(4)}

InitCall == Constructed(CallX, CallY)

\* interp(qs, mode=mode, extrapolate="linear")
NextCall ==
    /\ call = NoCall
    /\ \E qs \in SeqsOver(CallQ, 1, MaxQ), mode \in {"auto", "poly2"} :
         Call(qs, mode, RInt(1), 0, "linear")

SpecCall == InitCall /\ [][NextCall]_vars

\* C11 as stated: when a call returns, the result has one element per query;
\* every query is in exactly one of in-range, below-range and above-range, and
\* its result element is the interpolation's value for it in the first case
\* and the extrapolation engine's value for it in the other two.
C11_Original ==
    (call.op = "call" /\ ~IsRaise(out.res)) =>
        /\ Len(out.res[2]) = Len(call.qs)
        /\ \A i \in 1..Len(call.qs) :
             LET q  == call.qs[i]
                 lo == ~IsQNaN(q) /\ RLt(q, RInt(x[1]))
                 hi == ~IsQNaN(q) /\ RLt(RInt(x[Len(x)]), q)
                 in == ~IsQNaN(q) /\ RLe(RInt(x[1]), q) /\ RLe(q, RInt(x[Len(x)]))
             IN  /\ Cardinality({b \in {<<1, in>>, <<2, lo>>, <<3, hi>>} : b[2]}) = 1
                 /\ in => out.res[2][i] =
                             InterpPart(x, y, <<q>>, call.mode, call.k, FALSE, segCached)[2][1]
                 /\ lo => out.res[2][i] = ManualExtrap1(x, y, q, "left", "linear")
                 /\ hi => out.res[2][i] = ManualExtrap1(x, y, q, "right", "linear")

\* C13: when _multi_segment runs, it computes one index per in-range query;
\* the index i (counted from 1, over n samples) lies in 1..n-1, it is n-1 for
\* a query equal to the last sample's x, and otherwise it is the one interval
\* with x[i] <= q < x[i+1].
C13_IntervalIndex ==
    (call.op = "call" /\ UsesMulti(x, call.qs, call.mode, call.seg # 0)) =>
        LET n   == Len(x)
            qin == Keep(call.qs, Inside(x, call.qs), 1)
        IN  /\ Len(out.idx) = Len(qin)
            /\ \A j \in 1..Len(qin) :
                 LET i == out.idx[j]
                     within(m) == RLe(RInt(x[m]), qin[j]) /\ RLt(qin[j], RInt(x[m + 1]))
                 IN  /\ i \in 1..(n - 1)
                     /\ IF qin[j] = RInt(x[n]) THEN i = n - 1
                        ELSE within(i) /\ \A m \in 1..(n - 1) : within(m) => m = i

\* an evaluation in multi-segment mode of three or more samples with a query
\* on an interior sample, which starts the interval to its right, and one on
\* the last sample
C13_Witness ==
    /\ call.op = "call" /\ UsesMulti(x, call.qs, call.mode, call.seg # 0)
    /\ Len(x) >= 3
    /\ \E j \in 1..Len(out.idx) : \E m \in 2..(Len(x) - 1) :
         Keep(call.qs, Inside(x, call.qs), 1)[j] = RInt(x[m]) /\ out.idx[j] = m
    /\ \E j \in 1..Len(out.idx) :
         Keep(call.qs, Inside(x, call.qs), 1)[j] = RInt(x[Len(x)]) /\ out.idx[j] = Len(x) - 1

----------------------------------------------------------------------------
(* The Segment Selector, on the first auto evaluation of an instance.      *)

AutoX == {0, 1, 2, 3}

AutoY == {0, 1, 2, 20, 21}

InitAuto == Constructed(AutoX, AutoY)

\* interp([q]) for q halfway between the first two samples
NextAuto ==
    /\ call = NoCall
    /\ Call(<<Rat(x[1] + x[2], 2)>>, "auto", RInt(1), 0, "edge")

SpecAuto == InitAuto /\ [][NextAuto]_vars

\* the cost of candidate c on segment i of the instance
CostOn(i, c) ==
    LET s == EstimateSlopes(x, y)
    IN  SegmentCost(c, y[i], y[i + 1], x[i + 1] - x[i], s[i], s[i + 1], MonotonicDir(y))

\* |dy| / (|y0| + 1e-9) < 0.05 on segment i
FlatOn(i) == 20 * Abs(y[i + 1] - y[i]) <= Abs(y[i])

\* whether candidate c is what the selector is to return for segment i
SelectedOn(i, c) ==
    IF FlatOn(i) THEN c = 1
    ELSE /\ \A d \in 1..Len(Candidates) : ~CostLess(CostOn(i, d), CostOn(i, c))
         /\ \A d \in 1..(c - 1) : CostLess(CostOn(i, c), CostOn(i, d))

\* C14: on a segment that is not flat the selector returns a candidate of the
\* table that no candidate costs less than and that costs less than every
\* candidate before it in the table; on a flat segment it returns linear
\* with k = 1, whatever the costs.  With three or more samples the choice of
\* every segment is in the list _auto_segments built; with two samples the
\* result is the single-segment curve of the choice.
C14_Selector ==
    (call.op = "call" /\ call.mode = "auto" /\ call.seg = 0 /\ Inside(x, call.qs) # {}) =>
        IF Len(x) = 2
        THEN \E c \in 1..Len(Candidates) :
                /\ SelectedOn(1, c)
                /\ out.res = SingleSegment(x, y, call.qs, Candidates[c][1], Candidates[c][2])
        ELSE /\ autoRef # 0
             /\ Len(heap[autoRef]) = Len(x) - 1
             /\ \A i \in 1..(Len(x) - 1) :
                  \E c \in 1..Len(Candidates) :
                      SelectedOn(i, c) /\ heap[autoRef][i] = Candidates[c]

\* an auto evaluation that built a list with a segment, not flat, where a
\* candidate other than linear is returned and costs less than linear, and a
\* flat segment with y1 # y0 where linear is returned although another
\* candidate costs less
C14_Witness ==
    /\ call.op = "call" /\ call.mode = "auto" /\ autoRef # 0
    /\ \E i \in 1..(Len(x) - 1) : \E c \in 2..Len(Candidates) :
         /\ ~FlatOn(i)
         /\ heap[autoRef][i] = Candidates[c]
         /\ CostLess(CostOn(i, c), CostOn(i, 1))
    /\ \E i \in 1..(Len(x) - 1) : \E c \in 2..Len(Candidates) :
         /\ FlatOn(i) /\ y[i + 1] # y[i]
         /\ heap[autoRef][i] = Candidates[1]
         /\ CostLess(CostOn(i, c), CostOn(i, 1))

====
